---- MODULE Spec2Model ----
(***************************************************************************)
(* Model of pyProperties.Properties: a store bound to one *.properties     *)
(* file, holding the parallel lists _isComment / properties.               *)
(*                                                                         *)
(* A str is a sequence of one-character strings.  A dict is the sequence   *)
(* of its <<key, value>> items in insertion order (keys are distinct), so  *)
(* that popitem(), which removes the item inserted last, and list(d)[0]    *)
(* are what they are in Python.  An element of `properties` is a record    *)
(* [str, dict]: a comment line fills str, a configuration item fills dict; *)
(* which of the two it is, is decided by _isComment only, as in the code.  *)
(*                                                                         *)
(* The bound file is assumed readable and writable (no OSError), and the   *)
(* dicts handed to set_property are not aliased by the caller afterwards.  *)
(***************************************************************************)
EXTENDS Integers, Sequences, FiniteSets, TLC

VARIABLES
    file,        \* content of the file named self.fileName
    origin,      \* content that file had when the first instance was created
    _isComment,  \* self._isComment
    properties,  \* self.properties
    before,      \* _isComment / properties as they were before the last call
    op,          \* the last state-changing call: name, arguments, outcome
    prevOp,      \* the call before it
    answer,      \* the last query made after `op`, and what it returned
    steps        \* number of calls counted against MaxOps

vars == <<file, origin, _isComment, properties, before, op, prevOp, answer, steps>>

-----------------------------------------------------------------------------
(* Bounds *)

MaxOps == 2        \* state-changing calls per behaviour
MaxLines == 2      \* lines of the file a store behaviour starts from
MaxFileLen == 5    \* characters of the file a rewrite behaviour starts from

-----------------------------------------------------------------------------
(* Python str / list / dict primitives, as the code uses them *)

NL == "\n"

RECURSIVE FindFrom(_, _, _)
FindFrom(s, c, i) ==
    IF i > Len(s) THEN -1
    ELSE IF s[i] = c THEN i - 1
    ELSE FindFrom(s, c, i + 1)

\* str.find(c): 0-based index of the first c, -1 when there is none
find(s, c) == FindFrom(s, c, 1)

\* str.replace(c, ''): every occurrence of c is removed
replace(s, c) == SelectSeq(s, LAMBDA x : x # c)

\* str.split(sep): splits at EVERY sep
RECURSIVE split(_, _)
split(s, sep) ==
    LET i == find(s, sep)
    IN  IF i = -1 THEN <<s>>
        ELSE <<SubSeq(s, 1, i)>> \o split(SubSeq(s, i + 2, Len(s)), sep)

\* `for line in pro_file`: the lines of the text, each with its '\n'
\* (the last one without, when the text does not end in '\n')
RECURSIVE readlines(_)
readlines(s) ==
    IF s = <<>> THEN <<>>
    ELSE LET i == find(s, NL)
         IN  IF i = -1 THEN <<s>>
             ELSE <<SubSeq(s, 1, i + 1)>> \o readlines(SubSeq(s, i + 2, Len(s)))

\* file.writelines(buffer)
RECURSIVE writelines(_)
writelines(buffer) ==
    IF buffer = <<>> THEN <<>> ELSE Head(buffer) \o writelines(Tail(buffer))

\* d.keys()
keys(d) == {d[i][1] : i \in 1..Len(d)}

\* d[k], for k in d.keys()
getitem(d, k) == d[CHOOSE i \in 1..Len(d) : d[i][1] = k][2]

\* d[k] = v: an existing key keeps its place, a new one goes last
setitem(d, k, v) ==
    IF k \in keys(d)
    THEN [i \in 1..Len(d) |-> IF d[i][1] = k THEN <<k, v>> ELSE d[i]]
    ELSE Append(d, <<k, v>>)

\* d.update(arg)
RECURSIVE update(_, _)
update(d, arg) ==
    IF arg = <<>> THEN d
    ELSE update(setitem(d, Head(arg)[1], Head(arg)[2]), Tail(arg))

\* the two kinds of element of self.properties
StrItem(s) == [str |-> s, dict |-> <<>>]
DictItem(d) == [str |-> <<>>, dict |-> d]

-----------------------------------------------------------------------------
(* fread *)

\* one iteration of the loop over the lines
ReadLine(line, st) ==
    IF find(line, "#") = 0
    THEN [isComment  |-> Append(st.isComment, 1),
          properties |-> Append(st.properties,
                                StrItem(replace(replace(line, "#"), NL)))]
    ELSE IF find(line, "=") > 0
    THEN LET config == split(replace(line, NL), "=")
         IN  [isComment  |-> Append(st.isComment, 0),
              properties |-> Append(st.properties,
                                    DictItem(<< <<config[1], config[2]>> >>))]
    ELSE st

RECURSIVE ReadLines(_, _)
ReadLines(lines, st) ==
    IF lines = <<>> THEN st
    ELSE ReadLines(Tail(lines), ReadLine(Head(lines), st))

\* fread(): the parsed lines are APPENDED to what the instance holds
fread(text, st) == ReadLines(readlines(text), st)

Empty == [isComment |-> <<>>, properties |-> <<>>]

Store == [isComment |-> _isComment, properties |-> properties]

-----------------------------------------------------------------------------
(* fwrite *)

\* The loop over data_num.  popitem() removes the item from the dict that
\* self.properties holds, and raises KeyError on an empty dict; what was
\* popped before the error stays popped.
RECURSIVE WriteLoop(_, _, _, _)
WriteLoop(data_num, isC, props, buffer) ==
    IF data_num > Len(props)
    THEN [properties |-> props, buffer |-> buffer, err |-> ""]
    ELSE IF isC[data_num] = 1
    THEN WriteLoop(data_num + 1, isC, props,
                   Append(buffer, <<"#", " ">> \o props[data_num].str \o <<NL>>))
    ELSE LET d == props[data_num].dict
         IN  IF d = <<>>
             THEN [properties |-> props, buffer |-> buffer, err |-> "KeyError"]
             ELSE LET item == d[Len(d)]
                      rest == SubSeq(d, 1, Len(d) - 1)
                  IN  WriteLoop(data_num + 1, isC,
                                [props EXCEPT ![data_num] = DictItem(rest)],
                                Append(buffer, item[1] \o <<"=">> \o item[2] \o <<NL>>))

\* fwrite(): buffer[-1] raises IndexError on an empty buffer, before the file
\* is opened; the result of rstrip() is dropped, so every line keeps its '\n'
fwrite(isC, props, text) ==
    LET w == WriteLoop(1, isC, props, <<>>)
    IN  IF w.err # "" THEN [properties |-> w.properties, file |-> text, err |-> w.err]
        ELSE IF w.buffer = <<>>
        THEN [properties |-> w.properties, file |-> text, err |-> "IndexError"]
        ELSE [properties |-> w.properties, file |-> writelines(w.buffer), err |-> ""]

-----------------------------------------------------------------------------
(* get_all_properties, get_property *)

RECURSIVE AllFrom(_, _, _, _)
AllFrom(data_num, isC, props, all_properties) ==
    IF data_num > Len(props) THEN all_properties
    ELSE AllFrom(data_num + 1, isC, props,
                 IF isC[data_num] = 0
                 THEN update(all_properties, props[data_num].dict)
                 ELSE all_properties)

get_all_properties(isC, props) == AllFrom(1, isC, props, <<>>)

\* (mutant) the scan keeps going and ends on the last item that has `key`
LastMatch(isC, props, key) ==
    LET hits == {i \in 1..Len(props) : isC[i] = 0 /\ key \in keys(props[i].dict)}
    IN  IF hits = {} THEN 0 ELSE CHOOSE i \in hits : \A j \in hits : i >= j

\* smallest data_num whose configuration item has `key` among its keys, 0 if none
FirstMatch(isC, props, key) ==
    LET hits == {i \in 1..Len(props) : isC[i] = 0 /\ key \in keys(props[i].dict)}
    IN  IF hits = {} THEN 0 ELSE CHOOSE i \in hits : \A j \in hits : i <= j

get_property(isC, props, arg) ==
    LET data_num == FirstMatch(isC, props, arg)
    IN  IF data_num = 0 THEN [ret |-> <<>>, err |-> "IndexError"]
        ELSE [ret |-> getitem(props[data_num].dict, arg), err |-> ""]

-----------------------------------------------------------------------------
(* set_property *)

\* an argument of set_property: a dict, or something that is not a dict
Dict(d) == [isDict |-> TRUE, dict |-> d]
NotADict == [isDict |-> FALSE, dict |-> <<>>]

\* (mutant) the for-else runs although the scan found the key
SetOneAppendOnly(arg, st) ==
    IF ~arg.isDict THEN [st |-> st, err |-> "TypeError"]
    ELSE [st  |-> [isComment  |-> Append(st.isComment, 0),
                   properties |-> Append(st.properties, DictItem(arg.dict))],
          err |-> ""]

\* The body of `for arg in kv` for one arg.  list(arg)[0] is evaluated at
\* every configuration item the scan visits, and raises IndexError when arg
\* is an empty dict; with no configuration item to visit, the empty dict
\* falls through to the for-else and is appended.
SetOne(arg, st) ==
    IF ~arg.isDict THEN [st |-> st, err |-> "TypeError"]
    ELSE IF arg.dict = <<>> /\ \E i \in 1..Len(st.properties) : st.isComment[i] = 0
    THEN [st |-> st, err |-> "IndexError"]
    ELSE LET data_num == IF arg.dict = <<>> THEN 0
                         ELSE FirstMatch(st.isComment, st.properties, arg.dict[1][1])
         IN  IF data_num # 0
             THEN [st  |-> [st EXCEPT !.properties[data_num] =
                                DictItem(update(st.properties[data_num].dict, arg.dict))],
                   err |-> ""]
             ELSE [st  |-> [isComment  |-> Append(st.isComment, 0),
                            properties |-> Append(st.properties, DictItem(arg.dict))],
                   err |-> ""]

\* set_property(*kv): the args are handled in order; an error ends the call
\* and what earlier args did stays done
RECURSIVE set_property(_, _)
set_property(kv, st) ==
    IF kv = <<>> THEN [st |-> st, err |-> ""]
    ELSE LET r == SetOne(Head(kv), st)
         IN  IF r.err # "" THEN r ELSE set_property(Tail(kv), r.st)

-----------------------------------------------------------------------------
(* Inputs *)

\* keys and values of the store behaviours
Keys == {<<"a">>, <<"b">>}
Vals == {<<"1">>, <<"2">>}

\* the lines a store behaviour's file is made of: key=value, comment, blank
StoreLines ==
    {k \o <<"=">> \o v \o <<NL>> : k \in Keys, v \in Vals}
        \cup {<<"#", "c", NL>>, <<NL>>}

RECURSIVE LineSeqs(_)
LineSeqs(n) ==
    IF n = 0 THEN {<<>>}
    ELSE LET shorter == LineSeqs(n - 1)
         IN  shorter \cup {Append(ls, l) : ls \in shorter, l \in StoreLines}

StoreFiles == {writelines(ls) : ls \in LineSeqs(MaxLines)}

\* the characters of a rewrite behaviour's file
Alphabet == {"#", "=", "a", " ", NL}

RECURSIVE Texts(_)
Texts(n) ==
    IF n = 0 THEN {<<>>}
    ELSE LET shorter == Texts(n - 1)
         IN  shorter \cup {Append(t, c) : t \in shorter, c \in Alphabet}

TextFiles == Texts(MaxFileLen)

Single(k, v) == Dict(<< <<k, v>> >>)

Args ==
    {NotADict, Dict(<<>>)}
        \cup {Single(k, v) : k \in Keys, v \in Vals}
        \cup {Dict(<< << <<"a">>, <<"1">> >>, << <<"b">>, <<"2">> >> >>)}

\* argument lists of set_property: every single argument, and some pairs
ArgLists ==
    {<<x>> : x \in Args}
        \cup {<<Single(<<"a">>, <<"1">>), y>> :
                y \in {NotADict, Dict(<<>>), Single(<<"b">>, <<"2">>)}}

-----------------------------------------------------------------------------
(* Actions *)

NoOp == [name |-> "", kv |-> <<>>, err |-> ""]
NoAnswer == [name |-> "", arg |-> <<>>, ret |-> <<>>, err |-> ""]

\* Properties(file_name): a new instance, which reads the file at once
Created(text) ==
    /\ file = text
    /\ origin = text
    /\ _isComment = fread(text, Empty).isComment
    /\ properties = fread(text, Empty).properties
    /\ before = Empty
    /\ op = [name |-> "__init__", kv |-> <<>>, err |-> ""]
    /\ prevOp = NoOp
    /\ answer = NoAnswer
    /\ steps = 0

Init == \E text \in StoreFiles : Created(text)

InitFile == \E text \in TextFiles : Created(text)

\* a new instance bound to the same file replaces the old one
Construct ==
    /\ op.name = "fwrite"
    /\ _isComment' = fread(file, Empty).isComment
    /\ properties' = fread(file, Empty).properties
    /\ before' = Store
    /\ op' = [name |-> "__init__", kv |-> <<>>, err |-> ""]
    /\ prevOp' = op
    /\ answer' = NoAnswer
    /\ UNCHANGED <<file, origin, steps>>

\* P.fread() on the existing instance
Fread ==
    /\ steps < MaxOps
    /\ _isComment' = fread(file, Store).isComment
    /\ properties' = fread(file, Store).properties
    /\ before' = Store
    /\ op' = [name |-> "fread", kv |-> <<>>, err |-> ""]
    /\ prevOp' = op
    /\ answer' = NoAnswer
    /\ steps' = steps + 1
    /\ UNCHANGED <<file, origin>>

\* P.fwrite()
Fwrite ==
    /\ steps < MaxOps
    /\ LET w == fwrite(_isComment, properties, file)
       IN  /\ properties' = w.properties
           /\ file' = w.file
           /\ op' = [name |-> "fwrite", kv |-> <<>>, err |-> w.err]
    /\ before' = Store
    /\ prevOp' = op
    /\ answer' = NoAnswer
    /\ steps' = steps + 1
    /\ UNCHANGED <<origin, _isComment>>

\* P.set_property(*kv)
SetProperty ==
    /\ steps < MaxOps
    /\ \E kv \in ArgLists :
         LET r == set_property(kv, Store)
         IN  /\ _isComment' = r.st.isComment
             /\ properties' = r.st.properties
             /\ op' = [name |-> "set_property", kv |-> kv, err |-> r.err]
    /\ before' = Store
    /\ prevOp' = op
    /\ answer' = NoAnswer
    /\ steps' = steps + 1
    /\ UNCHANGED <<file, origin>>

\* P.get_property(arg)
GetProperty ==
    /\ \E arg \in Keys :
         LET r == get_property(_isComment, properties, arg)
         IN  answer' = [name |-> "get_property", arg |-> arg,
                        ret |-> r.ret, err |-> r.err]
    /\ UNCHANGED <<file, origin, _isComment, properties, before, op, prevOp, steps>>

\* P.get_all_properties()
GetAllProperties ==
    /\ answer' = [name |-> "get_all_properties", arg |-> <<>>,
                  ret |-> get_all_properties(_isComment, properties), err |-> ""]
    /\ UNCHANGED <<file, origin, _isComment, properties, before, op, prevOp, steps>>

Next ==
    \/ Fread
    \/ Fwrite
    \/ SetProperty
    \/ GetProperty
    \/ GetAllProperties

Spec == Init /\ [][Next]_vars

\* load, save, load again, ... with no other call in between
NextFile ==
    \/ Fwrite
    \/ Construct

SpecFile == InitFile /\ [][NextFile]_vars

-----------------------------------------------------------------------------
(* Vocabulary of the properties *)

\* the dicts of the configuration items, in order
ConfigItems(isC, props) ==
    LET idx == SelectSeq([i \in 1..Len(props) |-> i], LAMBDA i : isC[i] = 0)
    IN  [j \in 1..Len(idx) |-> props[idx[j]].dict]

\* the texts of the comments, in order
CommentTexts(isC, props) ==
    LET idx == SelectSeq([i \in 1..Len(props) |-> i], LAMBDA i : isC[i] = 1)
    IN  [j \in 1..Len(idx) |-> props[idx[j]].str]

\* positions of the configuration items that have key k
Holders(isC, props, k) ==
    {i \in 1..Len(props) : isC[i] = 0 /\ \E n \in 1..Len(props[i].dict) :
                                              props[i].dict[n][1] = k}

Least(S) == CHOOSE i \in S : \A j \in S : i <= j

\* a line without its trailing newline
Chomp(l) == IF l # <<>> /\ l[Len(l)] = NL THEN SubSeq(l, 1, Len(l) - 1) ELSE l

IsCommentLine(l) == l # <<>> /\ l[1] = "#"
\* a line whose first '=' is at an index greater than 0
IsKeyValueLine(l) ==
    /\ ~IsCommentLine(l)
    /\ l # <<>> /\ l[1] # "="
    /\ \E i \in 2..Len(l) : l[i] = "="

\* key and value of a key=value line, split at its first '=' only
FirstSplit(l) ==
    LET body == Chomp(l)
        i == Least({n \in 1..Len(body) : body[n] = "="})
    IN  <<SubSeq(body, 1, i - 1), SubSeq(body, i + 1, Len(body))>>

\* the (key, value) pairs of a text, in order
KeyValueContent(text) ==
    LET ls == SelectSeq(readlines(text), IsKeyValueLine)
    IN  [j \in 1..Len(ls) |-> FirstSplit(ls[j])]

\* the last call was set_property with one single-pair dict
SingleSet(o) ==
    /\ o.name = "set_property"
    /\ Len(o.kv) = 1
    /\ o.kv[1].isDict
    /\ Len(o.kv[1].dict) = 1

-----------------------------------------------------------------------------
(* C1: get_property of a present key returns the value of the last item    *)
(* with that key, i.e. what get_all_properties maps the key to.            *)
C1_GetIsLastMatch ==
    LET all == get_all_properties(_isComment, properties)
    IN  (answer.name = "get_property" /\ \E n \in 1..Len(all) : all[n][1] = answer.arg)
            => /\ answer.err = ""
               /\ \E n \in 1..Len(all) : all[n] = <<answer.arg, answer.ret>>

-----------------------------------------------------------------------------
(* C2: a file of '# <text>' comment lines and key=value lines loads into   *)
(* Comment(text) / KeyValue(key, value) entries, and every load-then-save  *)
(* cycle leaves the file byte-for-byte what it was.                        *)
PlainCommentLine(l) ==
    /\ Len(l) >= 4 /\ l[1] = "#" /\ l[2] = " " /\ l[Len(l)] = NL
    /\ \A i \in 2..Len(l) : l[i] # "#"

PlainKeyValueLine(l) ==
    /\ Len(l) >= 3 /\ l[Len(l)] = NL /\ l[1] # "="
    /\ \A i \in 1..Len(l) : l[i] # "#"
    /\ Cardinality({i \in 1..Len(l) : l[i] = "="}) = 1

PlainFile(text) ==
    LET ls == readlines(text)
    IN  /\ ls # <<>>
        /\ \A i \in 1..Len(ls) : PlainCommentLine(ls[i]) \/ PlainKeyValueLine(ls[i])

PlainEntries(text) ==
    LET ls == readlines(text)
    IN  [isComment  |-> [i \in 1..Len(ls) |-> IF PlainCommentLine(ls[i]) THEN 1 ELSE 0],
         properties |-> [i \in 1..Len(ls) |->
                            IF PlainCommentLine(ls[i])
                            THEN StrItem(SubSeq(ls[i], 3, Len(ls[i]) - 1))
                            ELSE DictItem(<<FirstSplit(ls[i])>>)]]

C2_CommentRoundTrip ==
    PlainFile(origin) =>
        /\ file = origin
        /\ op.name = "__init__" => Store = PlainEntries(file)

-----------------------------------------------------------------------------
(* C3: load splits a key=value line at its first '=' only: the key is what *)
(* precedes it, the value everything after it up to the newline.           *)
C3_SplitOnFirstEquals ==
    op.name = "__init__" =>
        LET pairs == KeyValueContent(file)
        IN  ConfigItems(_isComment, properties) = [j \in 1..Len(pairs) |-> <<pairs[j]>>]

-----------------------------------------------------------------------------
(* C4: set_property({k: v}) changes the value of the first item with key k *)
(* to v and nothing else, or, when no item has key k, appends one item     *)
(* {k: v} at the end.                                                      *)
C4_SetFrame ==
    SingleSet(op) =>
        LET k == op.kv[1].dict[1][1]
            v == op.kv[1].dict[1][2]
            old == before.properties
            hits == Holders(before.isComment, old, k)
        IN  /\ op.err = ""
            /\ IF hits # {}
               THEN LET f == Least(hits)
                    IN  /\ Len(properties) = Len(old)
                        /\ _isComment = before.isComment
                        /\ \A i \in 1..Len(old) : i # f => properties[i] = old[i]
                        /\ properties[f].str = old[f].str
                        /\ Len(properties[f].dict) = Len(old[f].dict)
                        /\ \A n \in 1..Len(old[f].dict) :
                              properties[f].dict[n] =
                                  IF old[f].dict[n][1] = k THEN <<k, v>> ELSE old[f].dict[n]
               ELSE /\ properties = Append(old, [str |-> <<>>, dict |-> << <<k, v>> >>])
                    /\ _isComment = Append(before.isComment, 0)

\* the value of the first of several items with key k was changed
C4_Witness ==
    /\ SingleSet(op)
    /\ LET k == op.kv[1].dict[1][1]
           hits == Holders(before.isComment, before.properties, k)
       IN  /\ Cardinality(hits) >= 2
           /\ properties[Least(hits)] # before.properties[Least(hits)]

-----------------------------------------------------------------------------
(* C5: set_property fails for every argument that is not a single-pair     *)
(* dict: not a dict, an empty dict, a dict of several pairs.               *)
C5_SetRejectsImproper ==
    (/\ op.name = "set_property"
     /\ \E i \in 1..Len(op.kv) : ~op.kv[i].isDict \/ Len(op.kv[i].dict) # 1)
        => op.err # ""

-----------------------------------------------------------------------------
(* C6: fwrite on a store with no entries completes without error and       *)
(* leaves the file empty.                                                  *)
C6_SaveEmpty ==
    (op.name = "fwrite" /\ before.properties = <<>>)
        => op.err = "" /\ file = <<>>

-----------------------------------------------------------------------------
(* C7: load then save with no mutation keeps the ordered (key, value)      *)
(* pairs of the file.                                                      *)
C7_RoundTripContent ==
    KeyValueContent(file) = KeyValueContent(origin)

-----------------------------------------------------------------------------
-----------------------------------------------------------------------------
(* C9: the text of a loaded comment is its line without the leading '#'    *)
(* and the trailing newline, every other character kept.                   *)
C9_CommentVerbatim ==
    op.name = "__init__" =>
        LET ls == SelectSeq(readlines(file), IsCommentLine)
        IN  CommentTexts(_isComment, properties) = [j \in 1..Len(ls) |-> Tail(Chomp(ls[j]))]

-----------------------------------------------------------------------------
(* C10: fwrite leaves _isComment and properties as they were.              *)
C10_SaveKeepsStore ==
    op.name = "fwrite" =>
        /\ _isComment = before.isComment
        /\ properties = before.properties

====
